---- MODULE Spec2Model ----
(***************************************************************************)
(* A model of plain_model_inspector/io/polyfile.py: the literal            *)
(* transformer and the PolyFileInterpreter, applied to parse trees of the  *)
(* polyfile grammar.                                                       *)
(*                                                                         *)
(* Python values are records carrying a "class" field.  A Python tuple is  *)
(* [class |-> "tuple", items |-> <<...>>], None is [class |-> "NoneType"], *)
(* and a raised exception is [class |-> "AttributeError"].  Token text is  *)
(* a sequence of one-character strings.  A float is held as an integer     *)
(* number of tenths (1.5 is 15).                                           *)
(***************************************************************************)
EXTENDS Integers, Sequences, FiniteSets, TLC

VARIABLES
    has_z_value,          \* the interpreter's _has_z_value
    min_n_columns,        \* the interpreter's _min_n_columns
    expected_n_columns,   \* the interpreter's _expected_n_columns
    parsed,               \* the tree the parser returned
    tree,                 \* the tree after PolyFileLiteralTransformer
    result,               \* what PolyFileInterpreter.visit returned or raised
    earlier,              \* what the visit before a second one of the tree left
    pc                    \* "start", "parsed", "transformed", "visited"

vars ==
    <<has_z_value, min_n_columns, expected_n_columns, parsed, tree, result,
      earlier, pc>>

(***************************************************************************)
(* Bounds of the model.                                                    *)
(***************************************************************************)
MaxRows == 2

MaxValues == 4

MaxExcess == 2

MaxExpected == 5

MaxBlank == 2

MaxHeader == 2

(***************************************************************************)
(* Python objects.                                                         *)
(***************************************************************************)
None == [class |-> "NoneType"]

AttributeError == [class |-> "AttributeError"]

PyTuple(items) == [class |-> "tuple", items |-> items]

Raised(v) == v.class = "AttributeError"

ParseErrorLevel == {"FATAL", "ERROR", "WARNING", "INFO"}

ParseMsg(level, line, column, reason) ==
    [class |-> "ParseMsg", level |-> level, line |-> line,
     column |-> column, reason |-> reason]

CommentLine(content) == [class |-> "CommentLine", content |-> content]

DescriptionHeader(content) == [class |-> "DescriptionHeader", content |-> content]

Metadata(name, n_rows, n_columns) ==
    [class |-> "Metadata", name |-> name, n_rows |-> n_rows, n_columns |-> n_columns]

\* z is <<>> when absent and <<v>> when present.
Point(x, y, z, data) == [class |-> "Point", x |-> x, y |-> y, z |-> z, data |-> data]

PolyObject(description, metadata, points) ==
    [class |-> "PolyObject", description |-> description,
     metadata |-> metadata, points |-> points]

TokenData(token, data) == [class |-> "TokenData", token |-> token, data |-> data]

\* A lark Token: its type, its text and its span.
Token(type, text, line, column, end_line, end_column) ==
    [class |-> "Token", type |-> type, text |-> text, line |-> line,
     column |-> column, end_line |-> end_line, end_column |-> end_column]

\* A lark Tree: the rule's name and its children.
Tree(data, children) == [class |-> "Tree", data |-> data, children |-> children]

IsMsg(x) == x.class = "ParseMsg"

HasAttr(obj, name) == name \in DOMAIN obj

(***************************************************************************)
(* Conversions of token text.                                              *)
(***************************************************************************)
DigitValue(c) ==
    CASE c = "0" -> 0 [] c = "1" -> 1 [] c = "2" -> 2 [] c = "3" -> 3
      [] c = "4" -> 4 [] c = "5" -> 5 [] c = "6" -> 6 [] c = "7" -> 7
      [] c = "8" -> 8 [] c = "9" -> 9

RECURSIVE IntOf(_)
\* int(text) for a text of decimal digits.
IntOf(text) ==
    IF text = <<>> THEN 0
    ELSE IntOf(SubSeq(text, 1, Len(text) - 1)) * 10 + DigitValue(text[Len(text)])

RECURSIVE IndexOf(_, _, _)
IndexOf(text, c, i) ==
    IF i > Len(text) THEN 0
    ELSE IF text[i] = c THEN i
    ELSE IndexOf(text, c, i + 1)

\* float(text) in tenths, for a text [sign] digits* "." digit?
FloatOf(text) ==
    LET signed == text[1] \in {"+", "-"}
        body   == IF signed THEN Tail(text) ELSE text
        dot    == IndexOf(body, ".", 1)
        whole  == SubSeq(body, 1, dot - 1)
        frac   == SubSeq(body, dot + 1, Len(body))
        mag    == IntOf(whole) * 10 + (IF frac = <<>> THEN 0 ELSE DigitValue(frac[1]))
    IN  IF text[1] = "-" THEN 0 - mag ELSE mag

Whitespace == {" ", "\t", "\r", "\n"}

RECURSIVE rstrip(_)
rstrip(text) ==
    IF text = <<>> THEN <<>>
    ELSE IF text[Len(text)] \in Whitespace THEN rstrip(SubSeq(text, 1, Len(text) - 1))
    ELSE text

(***************************************************************************)
(* _message_from_tokens and the PolyFileLiteralTransformer.                *)
(***************************************************************************)
\* tokens[0] and tokens[-1] must carry a span; anything else has no
\* attribute "line" and the access raises.
_message_from_tokens(tokens, level, reason) ==
    LET first == tokens[1]
        last  == tokens[Len(tokens)]
    IN  IF HasAttr(first, "line") /\ HasAttr(first, "column")
           /\ HasAttr(last, "end_line") /\ HasAttr(last, "end_column")
        THEN ParseMsg(level, <<first.line, last.end_line>>,
                      <<first.column, last.end_column>>, reason)
        ELSE AttributeError

TransformToken(token) ==
    CASE token.type = "COMMENT" -> CommentLine(rstrip(Tail(token.text)))
      [] token.type = "EMPTY_LINES" ->
            _message_from_tokens(<<token>>, "WARNING",
                                 "Unexpected empty lines will be ignored.")
      [] token.type = "WS" ->
            _message_from_tokens(<<token>>, "WARNING",
                                 "Unexpected empty whitespace will be ignored.")
      [] token.type = "NAME" -> TokenData(token, token.text)
      [] token.type = "INT" -> TokenData(token, IntOf(token.text))
      [] token.type = "FLOAT" -> TokenData(token, FloatOf(token.text))
      [] OTHER -> token

RECURSIVE transform(_)
\* Transformer.transform: bottom-up, every token through its callback.
transform(t) ==
    IF t.class = "Tree"
    THEN Tree(t.data, [i \in 1..Len(t.children) |-> transform(t.children[i])])
    ELSE TransformToken(t)

(***************************************************************************)
(* The PolyFileInterpreter.  self is the interpreter's own state:          *)
(* [has_z_value, min_n_columns, expected_n_columns].                       *)
(***************************************************************************)
Interpreter(has_z) ==
    LET min == IF ~has_z THEN 2 ELSE 3
    IN  [has_z_value |-> has_z, min_n_columns |-> min, expected_n_columns |-> min]

RECURSIVE visit(_, _)

RECURSIVE Select(_, _)
\* The elements of a list whose being a ParseMsg equals want, in order.
Select(input, want) ==
    IF input = <<>> THEN <<>>
    ELSE IF IsMsg(input[1]) = want
         THEN <<input[1]>> \o Select(Tail(input), want)
         ELSE Select(Tail(input), want)

\* (elems, msgs)
_filter_msgs(input) == <<Select(input, FALSE), Select(input, TRUE)>>

RECURSIVE Join(_, _)
\* sep.join(parts)
Join(parts, sep) ==
    IF parts = <<>> THEN <<>>
    ELSE IF Len(parts) = 1 THEN parts[1]
    ELSE parts[1] \o sep \o Join(Tail(parts), sep)

\* description_header joining the comments without the newline between them.
description_header_without_newlines(self, t) ==
    LET f        == _filter_msgs(t.children)
        comments == f[1]
        msgs     == f[2]
        content  == Join([i \in 1..Len(comments) |-> comments[i].content], <<>>)
    IN  PyTuple(<<DescriptionHeader(content), msgs>>)

description_header(self, t) ==
    LET f        == _filter_msgs(t.children)
        comments == f[1]
        msgs     == f[2]
        content  == Join([i \in 1..Len(comments) |-> comments[i].content], <<"\n">>)
    IN  PyTuple(<<DescriptionHeader(content), msgs>>)

metadata(self, t) ==
    LET f      == _filter_msgs(t.children)
        elems  == f[1]
        msgs   == f[2]
        name_r == visit(self, elems[1])
        dims_r == visit(self, elems[2])
    IN  IF Raised(name_r) THEN AttributeError
        ELSE IF Raised(dims_r) THEN AttributeError
        ELSE PyTuple(<<Metadata(name_r.items[1],
                                dims_r.items[1].items[1],
                                dims_r.items[1].items[2]),
                       msgs \o name_r.items[2] \o dims_r.items[2]>>)

name_line(self, t) ==
    LET f     == _filter_msgs(t.children)
        elems == f[1]
        msgs  == f[2]
    IN  PyTuple(<<elems[1].data, msgs>>)

dimensions_line(self, t) ==
    LET n == Len(t.children)
        r == visit(self, t.children[n])
    IN  IF Raised(r) THEN AttributeError
        ELSE IF n > 1
        THEN IF ~HasAttr(t.children[1], "token") THEN AttributeError
             ELSE LET m == _message_from_tokens(<<t.children[1].token>>, "WARNING",
                             "Whitespace at the beginning of the dimensions is ignored.")
                  IN  IF Raised(m) THEN AttributeError
                      ELSE PyTuple(<<r.items[1], Append(r.items[2], m)>>)
        ELSE r

\* dimensions_valid with the bound test off by one (<= for <).
dimensions_valid_off_by_one(self, t) ==
    LET n_rows    == t.children[1].data
        n_columns == t.children[2].data
        msgs      == IF n_columns <= self.min_n_columns
                     THEN <<_message_from_tokens(<<t.children[2].token>>, "ERROR",
                              "The number of specified columns is smaller than the minimum expected number.")>>
                     ELSE <<>>
    IN  PyTuple(<<PyTuple(<<n_rows, n_columns>>), msgs>>)

dimensions_valid(self, t) ==
    LET n_rows    == t.children[1].data
        n_columns == t.children[2].data
        msgs      == IF n_columns < self.min_n_columns
                     THEN <<_message_from_tokens(<<t.children[2].token>>, "ERROR",
                              "The number of specified columns is smaller than the minimum expected number.")>>
                     ELSE <<>>
    IN  PyTuple(<<PyTuple(<<n_rows, n_columns>>), msgs>>)

dimensions_exceeding_columns(self, t) ==
    LET r == visit(self, t.children[1])
        m == _message_from_tokens(<<t.children[2].token>>, "WARNING",
                "Too many columns specified, the excess columns will be ignored.")
    IN  IF Raised(r) THEN AttributeError
        ELSE PyTuple(<<r.items[1], Append(r.items[2], m)>>)

\* dimensions_missing_column with 0 for the sentinel -1.
dimensions_missing_column_zero(self, t) ==
    LET msgs   == <<_message_from_tokens(<<t.children[1].token>>, "ERROR",
                      "Only one dimension is specified, the number of columns will not be validated")>>
        n_rows == t.children[1].data
    IN  PyTuple(<<PyTuple(<<n_rows, 0>>), msgs>>)

dimensions_missing_column(self, t) ==
    LET msgs   == <<_message_from_tokens(<<t.children[1].token>>, "ERROR",
                      "Only one dimension is specified, the number of columns will not be validated")>>
        n_rows == t.children[1].data
    IN  PyTuple(<<PyTuple(<<n_rows, 0 - 1>>), msgs>>)

\* point comparing the row against _min_n_columns, not _expected_n_columns.
point_against_min(self, t) ==
    LET values   == [i \in 1..Len(t.children) |-> t.children[i].data]
        n_values == Len(values)
        span     == <<t.children[1].token, t.children[Len(t.children)].token>>
        msgs     == IF n_values < self.min_n_columns
                    THEN <<_message_from_tokens(span, "ERROR",
                             "Not as many columns provided as specified, the created point will be missing data.")>>
                    ELSE IF n_values > self.min_n_columns
                    THEN <<_message_from_tokens(span, "ERROR",
                             "Too many columns provided as specified, the created point will contain too much data.")>>
                    ELSE <<>>
        z_value  == IF self.has_z_value /\ n_values >= 3 THEN <<values[3]>> ELSE <<>>
        data     == SubSeq(values, self.min_n_columns + 1, n_values)
    IN  PyTuple(<<Point(values[1], values[2], z_value, data), msgs>>)

\* point slicing data from _expected_n_columns, not _min_n_columns.
point_data_from_expected(self, t) ==
    LET values   == [i \in 1..Len(t.children) |-> t.children[i].data]
        n_values == Len(values)
        span     == <<t.children[1].token, t.children[Len(t.children)].token>>
        msgs     == IF n_values < self.expected_n_columns
                    THEN <<_message_from_tokens(span, "ERROR",
                             "Not as many columns provided as specified, the created point will be missing data.")>>
                    ELSE IF n_values > self.expected_n_columns
                    THEN <<_message_from_tokens(span, "ERROR",
                             "Too many columns provided as specified, the created point will contain too much data.")>>
                    ELSE <<>>
        z_value  == IF self.has_z_value /\ n_values >= 3 THEN <<values[3]>> ELSE <<>>
        data     == SubSeq(values, self.expected_n_columns + 1, n_values)
    IN  PyTuple(<<Point(values[1], values[2], z_value, data), msgs>>)

point(self, t) ==
    LET values   == [i \in 1..Len(t.children) |-> t.children[i].data]
        n_values == Len(values)
        span     == <<t.children[1].token, t.children[Len(t.children)].token>>
        msgs     == IF n_values < self.expected_n_columns
                    THEN <<_message_from_tokens(span, "ERROR",
                             "Not as many columns provided as specified, the created point will be missing data.")>>
                    ELSE IF n_values > self.expected_n_columns
                    THEN <<_message_from_tokens(span, "ERROR",
                             "Too many columns provided as specified, the created point will contain too much data.")>>
                    ELSE <<>>
        z_value  == IF self.has_z_value /\ n_values >= 3 THEN <<values[3]>> ELSE <<>>
        data     == SubSeq(values, self.min_n_columns + 1, n_values)
    IN  PyTuple(<<Point(values[1], values[2], z_value, data), msgs>>)

point_invalid(self, t) ==
    PyTuple(<<None,
              <<_message_from_tokens(<<t.children[1].token>>, "ERROR",
                  "No point can be constructed from only a single value, row will be skipped")>>>>)

RECURSIVE PointsLoop_keeping_none(_, _, _, _)
\* The loop of points without the test "if point:".
PointsLoop_keeping_none(self, elems, pts, msgs) ==
    IF elems = <<>> THEN PyTuple(<<pts, msgs>>)
    ELSE LET r == visit(self, elems[1])
         IN  IF Raised(r) THEN AttributeError
             ELSE PointsLoop_keeping_none(self, Tail(elems),
                             Append(pts, r.items[1]),
                             IF r.items[2] # <<>> THEN msgs \o r.items[2] ELSE msgs)

RECURSIVE PointsLoop(_, _, _, _)
\* The for loop of points: (points, msgs) after the remaining elems.
PointsLoop(self, elems, pts, msgs) ==
    IF elems = <<>> THEN PyTuple(<<pts, msgs>>)
    ELSE LET r == visit(self, elems[1])
         IN  IF Raised(r) THEN AttributeError
             ELSE PointsLoop(self, Tail(elems),
                             IF r.items[1] # None THEN Append(pts, r.items[1]) ELSE pts,
                             IF r.items[2] # <<>> THEN msgs \o r.items[2] ELSE msgs)

points(self, t) ==
    LET f == _filter_msgs(t.children)
    IN  PointsLoop(self, f[1], <<>>, f[2])

\* poly_block without msgs.extend(point_msgs).
poly_block_dropping_point_msgs(self, t) ==
    LET f          == _filter_msgs(t.children)
        elems      == f[1]
        msgs       == f[2]
        components == [i \in 1..Len(elems) |-> visit(self, elems[i])]
    IN  IF \E i \in 1..Len(components) : Raised(components[i]) THEN AttributeError
        ELSE IF Len(components) = 3
        THEN PyTuple(<<PolyObject(components[1].items[1],
                                  components[2].items[1],
                                  components[3].items[1]),
                       msgs \o components[1].items[2] \o components[2].items[2]>>)
        ELSE PyTuple(<<PolyObject(None, components[1].items[1], components[2].items[1]),
                       msgs \o <<>> \o components[1].items[2]>>)

poly_block(self, t) ==
    LET f          == _filter_msgs(t.children)
        elems      == f[1]
        msgs       == f[2]
        components == [i \in 1..Len(elems) |-> visit(self, elems[i])]
    IN  IF \E i \in 1..Len(components) : Raised(components[i]) THEN AttributeError
        ELSE IF Len(components) = 3
        THEN PyTuple(<<PolyObject(components[1].items[1],
                                  components[2].items[1],
                                  components[3].items[1]),
                       msgs \o components[1].items[2] \o components[2].items[2]
                            \o components[3].items[2]>>)
        ELSE PyTuple(<<PolyObject(None, components[1].items[1], components[2].items[1]),
                       msgs \o <<>> \o components[1].items[2] \o components[2].items[2]>>)

\* Returns the ParseMsg itself, or raises when a child carries no span.
invalid_block(self, t) ==
    _message_from_tokens(t.children, "ERROR", "Invalid block of data will be ignored.")

\* The body is "pass": nothing is visited and None is returned.
poly_file(self, t) == None

\* Interpreter.visit: the method named by the tree's rule.
visit(self, t) ==
    CASE t.data = "description_header" -> description_header(self, t)
      [] t.data = "metadata" -> metadata(self, t)
      [] t.data = "name_line" -> name_line(self, t)
      [] t.data = "dimensions_line" -> dimensions_line(self, t)
      [] t.data = "dimensions_valid" -> dimensions_valid(self, t)
      [] t.data = "dimensions_exceeding_columns" -> dimensions_exceeding_columns(self, t)
      [] t.data = "dimensions_missing_column" -> dimensions_missing_column(self, t)
      [] t.data = "point" -> point(self, t)
      [] t.data = "point_invalid" -> point_invalid(self, t)
      [] t.data = "points" -> points(self, t)
      [] t.data = "poly_block" -> poly_block(self, t)
      [] t.data = "invalid_block" -> invalid_block(self, t)
      [] t.data = "poly_file" -> poly_file(self, t)

(***************************************************************************)
(* Parse trees of polyfile_grammar: what Lark(polyfile_grammar, start=...) *)
(* returns for a text laid out one token run per line, tokens one blank    *)
(* apart.  Filtered terminals (_WS, _END_OF_LINE) leave no child.          *)
(***************************************************************************)
Spaces(w) == [i \in 1..w |-> " "]

Newlines(k) == [i \in 1..k |-> "\n"]

DigitChar(n) ==
    CASE n = 0 -> "0" [] n = 1 -> "1" [] n = 2 -> "2" [] n = 3 -> "3"
      [] n = 4 -> "4" [] n = 5 -> "5" [] n = 6 -> "6" [] n = 7 -> "7"
      [] n = 8 -> "8" [] n = 9 -> "9"

RECURSIVE RowTokens(_, _, _, _)
\* The tokens of one line: each token's end_column is the column after it.
RowTokens(type, texts, line, column) ==
    IF texts = <<>> THEN <<>>
    ELSE <<Token(type, texts[1], line, column, line, column + Len(texts[1]))>>
         \o RowTokens(type, Tail(texts), line, column + Len(texts[1]) + 1)

WSToken(line, w) == Token("WS", Spaces(w), line, 1, line, 1 + w)

\* A run of k blank lines starting on the given line.
EmptyLinesToken(line, k) == Token("EMPTY_LINES", Newlines(k), line, 1, line + k, 1)

Optional(present, x) == IF present THEN <<x>> ELSE <<>>

\* dimensions_line: WS? (dimensions_valid | dimensions_missing_column
\*                       | dimensions_exceeding_columns) _END_OF_LINE
ParseDimensionsLine(line, ws, texts) ==
    LET toks == RowTokens("INT", texts, line, 1 + ws)
        body == IF Len(toks) = 1 THEN Tree("dimensions_missing_column", toks)
                ELSE IF Len(toks) = 2 THEN Tree("dimensions_valid", toks)
                ELSE Tree("dimensions_exceeding_columns",
                          <<Tree("dimensions_valid", SubSeq(toks, 1, 2))>>
                          \o SubSeq(toks, 3, Len(toks)))
    IN  Tree("dimensions_line", Optional(ws > 0, WSToken(line, ws)) \o <<body>>)

\* name_line: WS? NAME _END_OF_LINE
ParseNameLine(line, ws, name) ==
    Tree("name_line", Optional(ws > 0, WSToken(line, ws))
                      \o RowTokens("NAME", <<name>>, line, 1 + ws))

\* metadata: name_line EMPTY_LINES? dimensions_line EMPTY_LINES?
\* m = [ws, name, blank1, dws, ints, blank2]
MetadataLines(m) == 2 + m.blank1 + m.blank2

ParseMetadata(line, m) ==
    Tree("metadata",
         <<ParseNameLine(line, m.ws, m.name)>>
         \o Optional(m.blank1 > 0, EmptyLinesToken(line + 1, m.blank1))
         \o <<ParseDimensionsLine(line + 1 + m.blank1, m.dws, m.ints)>>
         \o Optional(m.blank2 > 0, EmptyLinesToken(line + 2 + m.blank1, m.blank2)))

\* point: _WS? FLOAT _WS FLOAT (_WS FLOAT)* _WS?   point_invalid: _WS? FLOAT _WS?
\* ?point_line is inlined: the row's tree is the point or point_invalid itself.
ParsePointLine(line, ws, texts) ==
    Tree(IF Len(texts) = 1 THEN "point_invalid" ELSE "point",
         RowTokens("FLOAT", texts, line, 1 + ws))

\* The text of value j of row r: "d.0", or "-d.5" in the signed style.
FloatText(r, j, signed) ==
    LET d == DigitChar((((r - 1) * 3 + j - 1) % 9) + 1)
    IN  IF signed THEN <<"-", d, ".", "5">> ELSE <<d, ".", "0">>

RowTexts(r, n, signed) == [j \in 1..n |-> FloatText(r, j, signed)]

RECURSIVE PointsChildren(_, _, _, _)
\* rows[i] = [n, blank]: n values, then a run of blank lines when blank > 0.
PointsChildren(line, rows, r, signed) ==
    IF rows = <<>> THEN <<>>
    ELSE <<ParsePointLine(line, 0, RowTexts(r, rows[1].n, signed))>>
         \o Optional(rows[1].blank > 0, EmptyLinesToken(line + 1, rows[1].blank))
         \o PointsChildren(line + 1 + rows[1].blank, Tail(rows), r + 1, signed)

RECURSIVE PointsLines(_)
PointsLines(rows) ==
    IF rows = <<>> THEN 0 ELSE 1 + rows[1].blank + PointsLines(Tail(rows))

\* points: (point_line EMPTY_LINES?)+
ParsePoints(line, rows, signed) == Tree("points", PointsChildren(line, rows, 1, signed))

RECURSIVE HeaderChildren(_, _)
\* items[i] = [comment, blank]: a comment line, or a run of blank lines.
HeaderChildren(line, items) ==
    IF items = <<>> THEN <<>>
    ELSE IF items[1].blank > 0
         THEN <<EmptyLinesToken(line, items[1].blank)>>
              \o HeaderChildren(line + items[1].blank, Tail(items))
         ELSE <<Token("COMMENT", items[1].comment, line, 1, line, 1 + Len(items[1].comment))>>
              \o HeaderChildren(line + 1, Tail(items))

RECURSIVE HeaderLines(_)
HeaderLines(items) ==
    IF items = <<>> THEN 0
    ELSE (IF items[1].blank > 0 THEN items[1].blank ELSE 1) + HeaderLines(Tail(items))

\* description_header: ( comment_line | EMPTY_LINES )+ ; ?comment_line is inlined.
ParseDescriptionHeader(line, items) == Tree("description_header", HeaderChildren(line, items))

\* poly_block: description_header? metadata points
\* b = [header, m, rows, signed]
ParsePolyBlock(line, b) ==
    Tree("poly_block",
         Optional(b.header # <<>>, ParseDescriptionHeader(line, b.header))
         \o <<ParseMetadata(line + HeaderLines(b.header), b.m),
              ParsePoints(line + HeaderLines(b.header) + MetadataLines(b.m), b.rows, b.signed)>>)

PolyBlockLines(b) == HeaderLines(b.header) + MetadataLines(b.m) + PointsLines(b.rows)

\* invalid_block: name_line? INVALID_BLOCK
\* v = [name, text, lines]: an optional name line, then lines of other text.
ParseInvalidBlock(line, v) ==
    LET first == line + (IF v.name # <<>> THEN 1 ELSE 0)
    IN  Tree("invalid_block",
             Optional(v.name # <<>>, ParseNameLine(line, 0, v.name))
             \o <<Token("INVALID_BLOCK", v.text, first, 1, first + v.lines, 1)>>)

InvalidBlockLines(v) == v.lines + (IF v.name # <<>> THEN 1 ELSE 0)

RECURSIVE FileChildren(_, _)
\* blocks[i] = [valid, b, v]
FileChildren(line, blocks) ==
    IF blocks = <<>> THEN <<>>
    ELSE IF blocks[1].valid
         THEN <<ParsePolyBlock(line, blocks[1].b)>>
              \o FileChildren(line + PolyBlockLines(blocks[1].b), Tail(blocks))
         ELSE <<ParseInvalidBlock(line, blocks[1].v)>>
              \o FileChildren(line + InvalidBlockLines(blocks[1].v), Tail(blocks))

\* poly_file: EMPTY_LINES? (poly_block | invalid_block)+
ParsePolyFile(blank, blocks) ==
    Tree("poly_file", Optional(blank > 0, EmptyLinesToken(1, blank))
                      \o FileChildren(1 + blank, blocks))

(***************************************************************************)
(* The texts that are parsed.                                              *)
(***************************************************************************)
WsWidths == {0, 2}

RowCountTexts == {<<"3">>, <<"0", "5">>}

ColumnCountTexts == {<<"1">>, <<"2">>, <<"3">>, <<"4">>}

ExcessTexts(k) == [i \in 1..k |-> <<"1", DigitChar(i)>>]

\* The integers of a dimension line: R, R C, or R C and up to MaxExcess more.
DimensionTexts ==
    {<<r>> : r \in RowCountTexts}
    \cup {<<r, c>> : r \in RowCountTexts, c \in ColumnCountTexts}
    \cup {<<r, c>> \o ExcessTexts(k) :
            r \in RowCountTexts, c \in ColumnCountTexts, k \in 1..MaxExcess}

myName == <<"m", "y", "N", "a", "m", "e">>

Names == {myName, <<"a", " ", "b">>}

desc == <<"*", " ", "d", "e", "s", "c">>

Comments == {desc, <<"*", "x", " ", " ">>}

DimensionsLineInputs ==
    {ParseDimensionsLine(1, ws, ints) : ws \in WsWidths, ints \in DimensionTexts}

\* The dimensions_valid, dimensions_missing_column and
\* dimensions_exceeding_columns subtrees, parsed on their own.
DimensionsInputs ==
    {ParseDimensionsLine(1, 0, ints).children[1] : ints \in DimensionTexts}

NameLineInputs == {ParseNameLine(1, ws, name) : ws \in WsWidths, name \in Names}

MetadataInputs ==
    {ParseMetadata(1, m) :
        m \in [ws : WsWidths, name : {myName}, blank1 : 0..1, dws : WsWidths,
               ints : DimensionTexts, blank2 : 0..1]}

PointLineInputs ==
    {ParsePointLine(1, ws, RowTexts(1, n, signed)) :
        ws \in WsWidths, n \in 1..MaxValues, signed \in BOOLEAN}

RowSeqs(values) == UNION {[1..k -> [n : values, blank : 0..1]] : k \in 1..MaxRows}

\* Rows of one to three values, with or without blank lines after the first.
BlockRowSeqs ==
    {[i \in 1..Len(ns) |-> [n |-> ns[i], blank |-> IF i = 1 THEN blank ELSE 0]] :
        ns \in UNION {[1..k -> 1..3] : k \in 1..MaxRows}, blank \in 0..1}

PointsInputs == {ParsePoints(1, rows, FALSE) : rows \in RowSeqs(1..MaxValues)}

HeaderItems ==
    [comment : Comments, blank : {0}] \cup [comment : {<<>>}, blank : 1..MaxBlank]

\* The lexer joins adjacent blank lines into one EMPTY_LINES token.
HeaderSeqs ==
    {h \in UNION {[1..k -> HeaderItems] : k \in 1..MaxHeader} :
        \A i \in 1..(Len(h) - 1) : h[i].blank = 0 \/ h[i + 1].blank = 0}

DescriptionHeaderInputs == {ParseDescriptionHeader(1, h) : h \in HeaderSeqs}

BlockHeaders == {<<>>, <<[comment |-> desc, blank |-> 0]>>,
                 <<[comment |-> desc, blank |-> 0], [comment |-> <<>>, blank |-> 1]>>}

BlockMetadata ==
    [ws : {0}, name : {myName}, blank1 : {0}, dws : WsWidths,
     ints : {<<<<"3">>, <<"3">>>>, <<<<"0", "5">>, <<"3">>>>, <<<<"3">>, <<"2">>>>,
             <<<<"3">>>>, <<<<"3">>, <<"3">>, <<"1", "1">>>>},
     blank2 : {0}]

\* The block of the round-trip scenario: "* desc", "myName", "3 3", three
\* rows of three values.
ScenarioBlock ==
    [header |-> <<[comment |-> desc, blank |-> 0]>>,
     m |-> [ws |-> 0, name |-> myName, blank1 |-> 0, dws |-> 0,
            ints |-> <<<<"3">>, <<"3">>>>, blank2 |-> 0],
     rows |-> [r \in 1..3 |-> [n |-> 3, blank |-> 0]],
     signed |-> FALSE]

PolyBlockInputs ==
    {ParsePolyBlock(1, b) :
        b \in [header : BlockHeaders, m : BlockMetadata,
               rows : BlockRowSeqs, signed : {FALSE}]}
    \cup {ParsePolyBlock(1, ScenarioBlock)}

junk == <<"/", "/", " ", "n", "o">>

InvalidBlocks == [name : {<<>>, myName}, text : {junk}, lines : 1..2]

InvalidBlockInputs == {ParseInvalidBlock(1, v) : v \in InvalidBlocks}

FileBlocks ==
    {[valid |-> TRUE, b |-> ScenarioBlock, v |-> [name |-> <<>>, text |-> junk, lines |-> 1]]}
    \cup {[valid |-> FALSE, b |-> ScenarioBlock, v |-> v] : v \in InvalidBlocks}

PolyFileInputs ==
    {ParsePolyFile(blank, blocks) :
        blank \in 0..1, blocks \in UNION {[1..k -> FileBlocks] : k \in 1..2}}

ParseInputs ==
    DimensionsLineInputs \cup DimensionsInputs \cup NameLineInputs
    \cup MetadataInputs \cup PointLineInputs \cup PointsInputs
    \cup DescriptionHeaderInputs \cup PolyBlockInputs \cup InvalidBlockInputs
    \cup PolyFileInputs

(***************************************************************************)
(* The pipeline: parse, transform, visit with an interpreter of its own.   *)
(***************************************************************************)
\* No earlier visit of the tree is on record.
Unvisited == [class |-> "Unvisited"]

Self ==
    [has_z_value |-> has_z_value, min_n_columns |-> min_n_columns,
     expected_n_columns |-> expected_n_columns]

Init ==
    /\ \E has_z \in BOOLEAN :
          LET i == Interpreter(has_z)
          IN  /\ has_z_value = i.has_z_value
              /\ min_n_columns = i.min_n_columns
              /\ expected_n_columns = i.expected_n_columns
    /\ parsed = None
    /\ tree = None
    /\ result = None
    /\ earlier = Unvisited
    /\ pc = "start"

\* PolyFileInterpreter(has_z): a new instance for a new parse.
Construct(has_z) ==
    /\ pc = "visited"
    /\ LET i == Interpreter(has_z)
       IN  /\ has_z_value' = i.has_z_value
           /\ min_n_columns' = i.min_n_columns
           /\ expected_n_columns' = i.expected_n_columns
    /\ parsed' = None
    /\ tree' = None
    /\ result' = None
    /\ earlier' = Unvisited
    /\ pc' = "start"

\* A second PolyFileInterpreter(has_z_value) for the tree already visited by
\* an interpreter that was left as constructed.
Reinterpret ==
    /\ pc = "visited"
    /\ earlier = Unvisited
    /\ expected_n_columns = min_n_columns
    /\ LET i == Interpreter(has_z_value)
       IN  /\ has_z_value' = i.has_z_value
           /\ min_n_columns' = i.min_n_columns
           /\ expected_n_columns' = i.expected_n_columns
    /\ earlier' = result
    /\ result' = None
    /\ pc' = "transformed"
    /\ UNCHANGED <<parsed, tree>>

\* The caller's assignment interpreter._expected_n_columns = e.
SetExpected(e) ==
    /\ pc = "transformed"
    /\ earlier = Unvisited
    /\ e <= MaxExpected
    /\ expected_n_columns' = e
    /\ UNCHANGED <<has_z_value, min_n_columns, parsed, tree, result, earlier, pc>>

\* parser.parse(text)
Parse(t) ==
    /\ pc = "start"
    /\ parsed' = t
    /\ pc' = "parsed"
    /\ UNCHANGED <<has_z_value, min_n_columns, expected_n_columns, tree, result, earlier>>

\* PolyFileLiteralTransformer().transform(tokens)
Transform ==
    /\ pc = "parsed"
    /\ tree' = transform(parsed)
    /\ pc' = "transformed"
    /\ UNCHANGED <<has_z_value, min_n_columns, expected_n_columns, parsed, result, earlier>>

\* interpreter.visit(tree) is enabled on a transformed tree of the rule ...
Visiting(rule) == pc = "transformed" /\ tree.data = rule

\* A visit whose _filter_msgs takes the ParseMsg objects out of the tree.
Returns_taking_msgs_out(r) ==
    /\ result' = r
    /\ pc' = "visited"
    /\ tree' = Tree(tree.data, Select(tree.children, FALSE))
    /\ UNCHANGED <<has_z_value, min_n_columns, expected_n_columns, parsed, earlier>>

\* ... and leaves what the rule's method returned or raised.
Returns(r) ==
    /\ result' = r
    /\ pc' = "visited"
    /\ UNCHANGED <<has_z_value, min_n_columns, expected_n_columns, parsed, tree, earlier>>

VisitDescriptionHeader ==
    /\ Visiting("description_header")
    /\ Returns(description_header(Self, tree))

VisitMetadata ==
    /\ Visiting("metadata")
    /\ Returns(metadata(Self, tree))

VisitNameLine ==
    /\ Visiting("name_line")
    /\ Returns(name_line(Self, tree))

VisitDimensionsLine ==
    /\ Visiting("dimensions_line")
    /\ Returns(dimensions_line(Self, tree))

VisitDimensionsValid ==
    /\ Visiting("dimensions_valid")
    /\ Returns(dimensions_valid(Self, tree))

VisitDimensionsExceedingColumns ==
    /\ Visiting("dimensions_exceeding_columns")
    /\ Returns(dimensions_exceeding_columns(Self, tree))

VisitDimensionsMissingColumn ==
    /\ Visiting("dimensions_missing_column")
    /\ Returns(dimensions_missing_column(Self, tree))

VisitPoint ==
    /\ Visiting("point")
    /\ Returns(point(Self, tree))

VisitPointInvalid ==
    /\ Visiting("point_invalid")
    /\ Returns(point_invalid(Self, tree))

VisitPoints ==
    /\ Visiting("points")
    /\ Returns(points(Self, tree))

\* poly_block taking the expected column count from the block's metadata.
VisitPolyBlock_setting_expected ==
    /\ Visiting("poly_block")
    /\ LET elems    == Select(tree.children, FALSE)
           m        == visit(Self, elems[Len(elems) - 1])
           declared == IF Raised(m) THEN expected_n_columns
                       ELSE IF m.items[1].n_columns < 1 THEN expected_n_columns
                       ELSE m.items[1].n_columns
       IN  /\ expected_n_columns' = declared
           /\ result' = poly_block([Self EXCEPT !.expected_n_columns = declared], tree)
    /\ pc' = "visited"
    /\ UNCHANGED <<has_z_value, min_n_columns, parsed, tree, earlier>>

VisitPolyBlock ==
    /\ Visiting("poly_block")
    /\ Returns(poly_block(Self, tree))

VisitInvalidBlock ==
    /\ Visiting("invalid_block")
    /\ Returns(invalid_block(Self, tree))

VisitPolyFile ==
    /\ Visiting("poly_file")
    /\ Returns(poly_file(Self, tree))

Next ==
    \/ \E has_z \in BOOLEAN : Construct(has_z)
    \/ Reinterpret
    \/ \E e \in 1..MaxExpected : SetExpected(e)
    \/ \E t \in ParseInputs : Parse(t)
    \/ Transform
    \/ VisitDescriptionHeader
    \/ VisitMetadata
    \/ VisitNameLine
    \/ VisitDimensionsLine
    \/ VisitDimensionsValid
    \/ VisitDimensionsExceedingColumns
    \/ VisitDimensionsMissingColumn
    \/ VisitPoint
    \/ VisitPointInvalid
    \/ VisitPoints
    \/ VisitPolyBlock
    \/ VisitInvalidBlock
    \/ VisitPolyFile

Spec == Init /\ [][Next]_vars

(***************************************************************************)
(* Properties.                                                             *)
(***************************************************************************)
Visited(rule) == pc = "visited" /\ tree.data = rule

IsPair(r) == r.class = "tuple" /\ Len(r.items) = 2

IsMsgList(l) == \A i \in 1..Len(l) : l[i].class = "ParseMsg"

CountLevel(msgs, level) == Cardinality({i \in 1..Len(msgs) : msgs[i].level = level})

\* The span from the start of token a to the end of token b.
Spans(m, a, b) ==
    /\ m.line = <<a.line, b.end_line>>
    /\ m.column = <<a.column, b.end_column>>

\* Message a starts no later in the text than message b.
StartsNoLater(a, b) ==
    \/ a.line[1] < b.line[1]
    \/ a.line[1] = b.line[1] /\ a.column[1] <= b.column[1]

InDocumentOrder(msgs) ==
    \A i \in 1..Len(msgs) : \A j \in (i + 1)..Len(msgs) : StartsNoLater(msgs[i], msgs[j])

\* The children of a tree that are trees themselves.
Subtrees(t) == Select(t.children, FALSE)

\* C1: visiting a poly_file tree returns a sequence with one
\* (PolyObject-or-None, diagnostics) pair per top-level block, in file order:
\* a poly_block child gives its PolyObject, an invalid_block child gives None
\* with its single ERROR diagnostic.
C1_PolyFileOnePairPerBlock ==
    Visited("poly_file") =>
        LET blocks == Subtrees(tree)
        IN  /\ result.class \in {"list", "tuple"}
            /\ Len(result.items) = Len(blocks)
            /\ \A i \in 1..Len(blocks) :
                  /\ IsPair(result.items[i])
                  /\ IsMsgList(result.items[i].items[2])
                  /\ IF blocks[i].data = "poly_block"
                     THEN /\ result.items[i].items[1].class = "PolyObject"
                          /\ result.items[i].items[1] = poly_block(Self, blocks[i]).items[1]
                     ELSE /\ result.items[i].items[1] = None
                          /\ Len(result.items[i].items[2]) = 1
                          /\ result.items[i].items[2][1].level = "ERROR"

\* C2: every interpreter rule completes without raising and returns a pair
\* of a possibly-absent value and a list of diagnostics.
C2_EveryRuleReturnsPair ==
    pc = "visited" =>
        /\ ~Raised(result)
        /\ IsPair(result)
        /\ IsMsgList(result.items[2])

\* C3: a dimension line with k >= 1 integers after the first two gives
\* (n_rows, n_columns) = the first two integers and exactly k WARNING
\* diagnostics, besides what the two-integer prefix produces itself.
C3_OneWarningPerExcessInteger ==
    Visited("dimensions_exceeding_columns") =>
        LET prefix == tree.children[1]
            k      == Len(tree.children) - 1
        IN  /\ IsPair(result)
            /\ result.items[1] = PyTuple(<<prefix.children[1].data, prefix.children[2].data>>)
            /\ CountLevel(result.items[2], "WARNING") = k
            /\ Len(result.items[2]) = k + Len(dimensions_valid(Self, prefix).items[2])

\* C4: the scenario block ("* desc", "myName", "3 3", three rows of three
\* values), visited by an interpreter constructed with z-values disabled,
\* gives three points with z absent and data [3.0], [6.0], [9.0], and an
\* empty diagnostics list.
C4_ScenarioWithoutZ ==
    (Visited("poly_block") /\ parsed = ParsePolyBlock(1, ScenarioBlock)
        /\ ~has_z_value /\ expected_n_columns = min_n_columns) =>
        /\ IsPair(result)
        /\ Len(result.items[1].points) = 3
        /\ \A i \in 1..3 :
              /\ result.items[1].points[i].z = <<>>
              /\ result.items[1].points[i].data = <<30 * i>>
        /\ result.items[2] = <<>>

\* C5: the diagnostics list a rule returns is in document order: of any two
\* diagnostics, the one whose span starts earlier in the text comes first.
C5_DiagnosticsInDocumentOrder ==
    (pc = "visited" /\ IsPair(result)) => InDocumentOrder(result.items[2])

\* What C6 says of a dimensions_valid tree t and the result r of its rule.
DimensionsValidOutcome(t, r) ==
    LET R   == t.children[1].data
        C   == t.children[2].data
        tok == t.children[2].token
    IN  /\ IsPair(r)
        /\ r.items[1] = PyTuple(<<R, C>>)
        /\ IF C >= (IF has_z_value THEN 3 ELSE 2)
           THEN r.items[2] = <<>>
           ELSE /\ Len(r.items[2]) = 1
                /\ r.items[2][1].level = "ERROR"
                /\ Spans(r.items[2][1], tok, tok)

\* A dimensions_line tree without leading whitespace over a tree of the rule.
PlainLineOf(t, rule) ==
    t.data = "dimensions_line" /\ Len(t.children) = 1 /\ t.children[1].data = rule

\* C6: a two-integer dimension line "R C" gives (n_rows, n_columns) = (R, C)
\* whatever C is, with no diagnostic when C >= min_columns (2 without
\* z-values, 3 with) and exactly one ERROR, spanning the column-count
\* integer, when C < min_columns; metadata over such a line reports the
\* same n_rows and n_columns.
C6_DimensionsValid ==
    /\ Visited("dimensions_valid") => DimensionsValidOutcome(tree, result)
    /\ (pc = "visited" /\ PlainLineOf(tree, "dimensions_valid")) =>
          DimensionsValidOutcome(tree.children[1], result)
    /\ (Visited("metadata") /\ PlainLineOf(Subtrees(tree)[2], "dimensions_valid")) =>
          LET d == Subtrees(tree)[2].children[1]
          IN  /\ IsPair(result)
              /\ result.items[1].n_rows = d.children[1].data
              /\ result.items[1].n_columns = d.children[2].data
              /\ CountLevel(result.items[2], "ERROR") =
                    IF d.children[2].data >= (IF has_z_value THEN 3 ELSE 2) THEN 0 ELSE 1

\* The line "05 2" read with z-values: (5, 2) and the ERROR on the "2".
C6_Witness ==
    /\ Visited("dimensions_line")
    /\ has_z_value
    /\ parsed = ParseDimensionsLine(1, 0, <<<<"0", "5">>, <<"2">>>>)
    /\ result = PyTuple(<<PyTuple(<<5, 2>>),
                          <<ParseMsg("ERROR", <<1, 1>>, <<4, 5>>,
                              "The number of specified columns is smaller than the minimum expected number.")>>>>)

\* What C7 says of a dimensions_missing_column tree t and its result r.
MissingColumnOutcome(t, r) ==
    /\ IsPair(r)
    /\ r.items[1] = PyTuple(<<t.children[1].data, 0 - 1>>)
    /\ Len(r.items[2]) = 1
    /\ r.items[2][1].level = "ERROR"

\* C7: a dimension line holding a single integer R gives (n_rows,
\* n_columns) = (R, -1) and exactly one ERROR diagnostic, with and without
\* z-values.
C7_DimensionsMissingColumn ==
    /\ Visited("dimensions_missing_column") => MissingColumnOutcome(tree, result)
    /\ (pc = "visited" /\ PlainLineOf(tree, "dimensions_missing_column")) =>
          MissingColumnOutcome(tree.children[1], result)

\* The line "3" read with z-values: (3, -1) and one ERROR.
C7_Witness ==
    /\ Visited("dimensions_line")
    /\ has_z_value
    /\ parsed = ParseDimensionsLine(1, 0, <<<<"3">>>>)
    /\ result.items[1] = PyTuple(<<3, 0 - 1>>)
    /\ CountLevel(result.items[2], "ERROR") = 1

\* C8: a point row of n >= 2 values, read while E columns are expected,
\* always gives a Point with x and y the first two values, no diagnostic
\* when n = E, and exactly one ERROR spanning the first to the last value
\* when n < E or n > E.
C8_PointRow ==
    Visited("point") =>
        LET n     == Len(tree.children)
            first == tree.children[1].token
            last  == tree.children[n].token
        IN  /\ n >= 2
            /\ IsPair(result)
            /\ result.items[1].class = "Point"
            /\ result.items[1].x = tree.children[1].data
            /\ result.items[1].y = tree.children[2].data
            /\ IF n = expected_n_columns
               THEN result.items[2] = <<>>
               ELSE /\ Len(result.items[2]) = 1
                    /\ result.items[2][1].level = "ERROR"
                    /\ Spans(result.items[2][1], first, last)

\* A row of three values read without z-values while the caller expects
\* three columns: a Point and no diagnostic.
C8_Witness ==
    /\ Visited("point")
    /\ ~has_z_value
    /\ expected_n_columns = 3
    /\ Len(tree.children) = 3
    /\ result.items[1].class = "Point"
    /\ result.items[2] = <<>>

RECURSIVE RowsOf(_, _)
\* The rows among the trees whose rule is the given one, in order.
RowsOf(rows, rule) ==
    IF rows = <<>> THEN <<>>
    ELSE IF rows[1].data = rule
         THEN <<rows[1]>> \o RowsOf(Tail(rows), rule)
         ELSE RowsOf(Tail(rows), rule)

\* C9: a row with exactly one value gives no Point and exactly one ERROR;
\* points returns the Points of the rows with two or more values, in row
\* order, and as many points as there are such rows.
C9_PointsSkipSingleValueRows ==
    /\ Visited("point_invalid") =>
          /\ Len(tree.children) = 1
          /\ IsPair(result)
          /\ result.items[1] = None
          /\ Len(result.items[2]) = 1
          /\ result.items[2][1].level = "ERROR"
    /\ Visited("points") =>
          LET good == RowsOf(Subtrees(tree), "point")
              bad  == RowsOf(Subtrees(tree), "point_invalid")
          IN  /\ IsPair(result)
              /\ Len(good) + Len(bad) = Len(Subtrees(tree))
              /\ \A i \in 1..Len(good) : Len(good[i].children) >= 2
              /\ \A i \in 1..Len(bad) : Len(bad[i].children) = 1
              /\ Len(result.items[1]) = Len(good)
              /\ \A i \in 1..Len(good) :
                    /\ result.items[1][i].class = "Point"
                    /\ result.items[1][i].x = good[i].children[1].data
                    /\ result.items[1][i].y = good[i].children[2].data

\* Two rows, the first with one value: one point, the second row's.
C9_Witness ==
    /\ Visited("points")
    /\ Len(Subtrees(tree)) = 2
    /\ Subtrees(tree)[1].data = "point_invalid"
    /\ Subtrees(tree)[2].data = "point"
    /\ Len(result.items[1]) = 1
    /\ result.items[1][1].x = Subtrees(tree)[2].children[1].data

\* What C10 says of a Point p made from the row t.
PointShape(t, p) ==
    LET n      == Len(t.children)
        min    == IF has_z_value THEN 3 ELSE 2
        values == [i \in 1..n |-> t.children[i].data]
    IN  /\ p.z = IF has_z_value /\ n >= 3 THEN <<values[3]>> ELSE <<>>
        /\ Len(p.data) = (IF n > min THEN n - min ELSE 0)
        /\ \A i \in 1..Len(p.data) : p.data[i] = values[min + i]

\* C10: a Point made from a row of n values has z present (the third value)
\* exactly when z-values are configured and n >= 3, and data the values from
\* index min_columns on, so len(data) = max(0, n - min_columns), whatever
\* the expected column count is.
C10_PointShape ==
    /\ Visited("point") => PointShape(tree, result.items[1])
    /\ Visited("points") =>
          LET good == RowsOf(Subtrees(tree), "point")
          IN  \A i \in 1..Len(good) :
                 i <= Len(result.items[1]) => PointShape(good[i], result.items[1][i])

\* A row of four values read with z-values while five columns are expected:
\* z is the third value and data holds the fourth.
C10_Witness ==
    /\ Visited("point")
    /\ has_z_value
    /\ expected_n_columns = 5
    /\ Len(tree.children) = 4
    /\ result.items[1].z = <<tree.children[3].data>>
    /\ result.items[1].data = <<tree.children[4].data>>

RECURSIVE Leaves(_)
\* The tokens of a parse tree, in the order of the text.
Leaves(t) ==
    IF t.class = "Tree"
    THEN IF t.children = <<>> THEN <<>>
         ELSE Leaves(t.children[1]) \o Leaves(Tree(t.data, Tail(t.children)))
    ELSE <<t>>

\* The tokens of one type in a parse tree.
TokensOf(t, type) == SelectSeq(Leaves(t), LAMBDA k : k.type = type)

\* The children of a parse tree that are trees of the rule.
ChildrenOf(t, rule) ==
    SelectSeq(t.children, LAMBDA c : c.class = "Tree" /\ c.data = rule)

\* The text of a comment token without its "*" and without the whitespace
\* at its end.
Stripped(text) ==
    LET last == CHOOSE k \in 1..Len(text) :
                    /\ text[k] \notin Whitespace
                    /\ \A j \in (k + 1)..Len(text) : text[j] \in Whitespace
    IN  SubSeq(text, 2, last)

\* A parsed poly_block whose name line and dimension line hold nothing but
\* the name and "R 3", and whose rows all hold three values.
WellFormedBlock(p) ==
    /\ p.class = "Tree" /\ p.data = "poly_block"
    /\ LET m    == ChildrenOf(p, "metadata")[1]
           name == ChildrenOf(m, "name_line")[1]
           dims == ChildrenOf(m, "dimensions_line")[1]
           pts  == ChildrenOf(p, "points")[1]
       IN  /\ Len(name.children) = 1
           /\ Len(dims.children) = 1
           /\ dims.children[1].data = "dimensions_valid"
           /\ Len(dims.children[1].children) = 2
           /\ dims.children[1].children[2].text = <<"3">>
           /\ \A i \in 1..Len(pts.children) :
                 pts.children[i].class = "Tree" =>
                    /\ pts.children[i].data = "point"
                    /\ Len(pts.children[i].children) = 3

\* C11: a well-formed poly_block (name line, dimensions "R 3", rows of three
\* values) interpreted with z-values gives one PolyObject whose description
\* is the header's content (absent without a header), whose metadata is
\* (name, R, 3), whose points carry x, y, z and no data, and whose
\* diagnostics are one WARNING per run of blank lines in the block and
\* nothing else.
C11_WellFormedBlockWithZ ==
    (Visited("poly_block") /\ has_z_value /\ expected_n_columns = min_n_columns
        /\ WellFormedBlock(parsed)) =>
        LET header == ChildrenOf(parsed, "description_header")
            m      == ChildrenOf(parsed, "metadata")[1]
            rows   == ChildrenOf(ChildrenOf(parsed, "points")[1], "point")
            blanks == TokensOf(parsed, "EMPTY_LINES")
            obj    == result.items[1]
            msgs   == result.items[2]
        IN  /\ IsPair(result)
            /\ obj.class = "PolyObject"
            /\ IF header = <<>> THEN obj.description = None
               ELSE LET comments == TokensOf(header[1], "COMMENT")
                    IN  obj.description =
                           DescriptionHeader(
                              Join([i \in 1..Len(comments) |-> Stripped(comments[i].text)],
                                   <<"\n">>))
            /\ obj.metadata =
                  Metadata(TokensOf(m, "NAME")[1].text,
                           IntOf(TokensOf(m, "INT")[1].text), 3)
            /\ Len(obj.points) = Len(rows)
            /\ \A i \in 1..Len(rows) :
                  obj.points[i] =
                     Point(FloatOf(rows[i].children[1].text),
                           FloatOf(rows[i].children[2].text),
                           <<FloatOf(rows[i].children[3].text)>>, <<>>)
            /\ Len(msgs) = Len(blanks)
            /\ \A i \in 1..Len(msgs) : msgs[i].level = "WARNING"
            /\ \A j \in 1..Len(blanks) :
                  \E i \in 1..Len(msgs) : Spans(msgs[i], blanks[j], blanks[j])

\* A block with a header, a run of blank lines in the header and one among
\* its two rows of three values.
C11_Witness ==
    /\ Visited("poly_block") /\ has_z_value /\ expected_n_columns = min_n_columns
    /\ WellFormedBlock(parsed)
    /\ ChildrenOf(parsed, "description_header") # <<>>
    /\ Len(TokensOf(ChildrenOf(parsed, "description_header")[1], "EMPTY_LINES")) = 1
    /\ Len(TokensOf(ChildrenOf(parsed, "points")[1], "EMPTY_LINES")) = 1
    /\ IsPair(result)
    /\ Len(result.items[1].points) = 2
    /\ Len(result.items[2]) = 2

\* C12: description_header gives a DescriptionHeader whose content is the
\* comment lines' texts, each without its "*" and without the whitespace at
\* its end, joined by newlines in the order of the text, runs of blank lines
\* adding nothing to it; the diagnostics are exactly one WARNING per run of
\* blank lines, however many lines the run holds.
C12_DescriptionHeader ==
    Visited("description_header") =>
        LET comments == TokensOf(parsed, "COMMENT")
            blanks   == TokensOf(parsed, "EMPTY_LINES")
            msgs     == result.items[2]
        IN  /\ IsPair(result)
            /\ result.items[1] =
                  DescriptionHeader(
                     Join([i \in 1..Len(comments) |-> Stripped(comments[i].text)],
                          <<"\n">>))
            /\ Len(msgs) = Len(blanks)
            /\ \A i \in 1..Len(msgs) :
                  /\ msgs[i].level = "WARNING"
                  /\ Spans(msgs[i], blanks[i], blanks[i])

\* The comment "*x  " followed by a run of two blank lines: content "x" and
\* one WARNING over both lines.
C12_Witness ==
    /\ Visited("description_header")
    /\ Len(parsed.children) = 2
    /\ parsed.children[1].type = "COMMENT"
    /\ parsed.children[1].text = <<"*", "x", " ", " ">>
    /\ parsed.children[2].type = "EMPTY_LINES"
    /\ parsed.children[2].end_line - parsed.children[2].line = 2
    /\ result.items[1].content = <<"x">>
    /\ Len(result.items[2]) = 1

\* C13: invalid_block, with or without a name line before the other text,
\* gives no object and exactly one ERROR diagnostic, whose span runs from
\* the start of the block's first token (the name, when there is one) to the
\* end of its last token.  The diagnostic is accepted on its own or in a
\* (None, [diagnostic]) pair.
C13_InvalidBlockOneError ==
    Visited("invalid_block") =>
        LET tokens == Leaves(parsed)
            msgs   == IF result.class = "ParseMsg" THEN <<result>>
                      ELSE IF result.class = "tuple" THEN result.items[2]
                      ELSE <<>>
        IN  /\ result.class \in {"ParseMsg", "tuple"}
            /\ result.class = "tuple" => result.items[1] = None
            /\ Len(msgs) = 1
            /\ msgs[1].level = "ERROR"
            /\ Spans(msgs[1], tokens[1], tokens[Len(tokens)])

\* The diagnostics a result carries: a pair's second item, or the result
\* itself when it is a bare ParseMsg.
MsgsOf(r) ==
    IF r.class = "ParseMsg" THEN <<r>>
    ELSE IF r.class = "tuple" /\ Len(r.items) = 2 THEN r.items[2]
    ELSE <<>>

Carries(r) == r.class = "ParseMsg" \/ IsPair(r)

RECURSIVE Concat(_)
Concat(lists) == IF lists = <<>> THEN <<>> ELSE lists[1] \o Concat(Tail(lists))

Count(msgs, m) == Cardinality({i \in 1..Len(msgs) : msgs[i] = m})

\* The diagnostics a rule has to pass on: the ParseMsg objects among its
\* tree's direct children, then what interpreting each subtree returns.
Inherited(self, t) ==
    LET kids == SelectSeq(t.children, LAMBDA c : c.class = "Tree")
    IN  Select(t.children, TRUE)
        \o Concat([i \in 1..Len(kids) |-> MsgsOf(visit(self, kids[i]))])

\* C14: for every rule, the returned diagnostics hold, once each and
\* unchanged, every diagnostic returned by interpreting the rule's children
\* and every ParseMsg among the rule's direct children, and beyond these
\* only what the rule itself generates (at most one diagnostic).
C14_NoDiagnosticLostOrDuplicated ==
    pc = "visited" =>
        LET inherited == Inherited(Self, tree)
            msgs      == MsgsOf(result)
        IN  /\ Carries(result)
            /\ \A k \in 1..Len(inherited) :
                  Count(msgs, inherited[k]) = Count(inherited, inherited[k])
            /\ Len(msgs) <= Len(inherited) + 1

ColumnReasons ==
    {"Not as many columns provided as specified, the created point will be missing data.",
     "Too many columns provided as specified, the created point will contain too much data."}

\* The rows of a transformed poly_block that hold two values or more.
PointRows(t) ==
    LET elems == Select(t.children, FALSE)
    IN  RowsOf(Select(elems[Len(elems)].children, FALSE), "point")

\* Row t has a column-count ERROR among msgs.
Reported(t, msgs) ==
    \E i \in 1..Len(msgs) :
        /\ msgs[i].level = "ERROR"
        /\ msgs[i].reason \in ColumnReasons
        /\ Spans(msgs[i], t.children[1].token, t.children[Len(t.children)].token)

\* C17: no rule writes the interpreter's configuration: a visit leaves
\* has_z_value, the minimum and the expected column count as they were, so
\* the expected count changes only by the caller's assignment or by
\* construction (which sets it to the minimum, 2 or 3); and in a poly_block
\* a row is reported exactly when its number of values differs from that
\* expected count, whatever n_columns the block's metadata declares.
C17_RulesLeaveConfiguration ==
    [][/\ (pc = "transformed" /\ pc' = "visited") =>
             /\ has_z_value' = has_z_value
             /\ min_n_columns' = min_n_columns
             /\ expected_n_columns' = expected_n_columns
             /\ (tree.data = "poly_block" /\ IsPair(result')) =>
                   \A i \in 1..Len(PointRows(tree)) :
                      Reported(PointRows(tree)[i], result'.items[2])
                      <=> Len(PointRows(tree)[i].children) # expected_n_columns
       /\ min_n_columns' = (IF has_z_value' THEN 3 ELSE 2)
       /\ expected_n_columns' # expected_n_columns =>
             \/ pc = "transformed" /\ pc' = "transformed"
             \/ expected_n_columns' = min_n_columns'
      ]_vars

\* A block declaring three columns, read without z-values by an interpreter
\* left as constructed: two columns are expected after the visit as before
\* it, and each row of three values is reported.
C17_Witness ==
    /\ Visited("poly_block")
    /\ ~has_z_value
    /\ expected_n_columns = 2
    /\ IsPair(result)
    /\ result.items[1].metadata.n_columns = 3
    /\ Len(PointRows(tree)) = 3
    /\ \A i \in 1..3 :
          /\ Len(PointRows(tree)[i].children) = 3
          /\ Reported(PointRows(tree)[i], result.items[2])

====
